---- MODULE Spec2Model ----
(***************************************************************************)
(* A model of the Jumpseller CLI: the theme watcher (services/watcher.js), *)
(* the git observer (services/git.js) and the credential / store           *)
(* resolution singleton (services/auth.js).                                *)
(*                                                                         *)
(* Strings are modelled as sequences of pieces: a piece is a run of        *)
(* characters the code never looks inside ("shop1", ".jumpseller.com",     *)
(* " ", "\n", "#").  A path is a sequence of segments and a segment is a   *)
(* sequence of pieces (<<"foo", ".json">>); the "/" between segments is    *)
(* implicit.                                                               *)
(***************************************************************************)
EXTENDS Integers, Sequences, FiniteSets, TLC

VARIABLES
  \* ---- ThemeWatcher (services/watcher.js) -------------------------------
  wpc,          \* where watch() stands: idle, listening, closing, draining,
                \* returned, threw, terminated (by a signal), aborted (by
                \* an unhandled rejection)
  stopped,      \* the stop hook's promise has been resolved
  handlers,     \* SIGINT / SIGTERM listeners are registered
  requests,     \* this.requests: the promises pushed by the "all" handler
  nEvents,      \* how often the "all" handler has been called
  lastEvent,    \* the (event, relative path) of its latest call
  allowlist,    \* this.allowlist
  blocklist,    \* this.blocklist
  files,        \* the watched folder: relative path -> current content
  watchers,     \* how many filesystem watchers watch() has created
  watchError,   \* the error of the latest rejected watch() call
  closed,       \* the promise of watcher.close() has resolved
  \* ---- GitObserver (services/git.js) ------------------------------------
  gitRoot,      \* findGitRoot(folder) finds a repository
  gitObserver,  \* this.gitObserver: <<>> when unset, else <<[branch, stash]>>
  branch,       \* git branch --show-current
  stashList,    \* git stash list
  indexLock,    \* .git/index.lock exists
  \* ---- Auth: credentials (services/auth.js) ----------------------------
  credFile,               \* CREDENTIALS_FILE on disk: [exists, text]
  credentialsText,        \* this.credentialsText: <<>> when unset, else <<text>>
  credentialsTextChanged, \* this.credentialsTextChanged
  calls,                  \* the calls made on Auth so far
  written,                \* how often #writeCredentialsFile has run
  \* ---- Auth: current store (services/auth.js) --------------------------
  cwd,                    \* process.cwd()
  localFiles,             \* directory -> its LOCAL_CURRENT_FILE: [exists, text]
  globalFile,             \* GLOBAL_CURRENT_FILE on disk: [exists, text]
  commandStore,           \* this.commandStore
  globalDefault,          \* this.globalDefault
  scopeDefault,           \* this.scopeDefault
  scopeFolder,            \* this.scopeFolder: <<>> when unset, else <<directory>>
  current,                \* what currentStore() returned, if it was the latest call
  \* ---- the writes of Auth, step by step (services/auth.js) -------------
  tmpFile,                \* the temporary file of a write: [exists, text]
  wr,                     \* the write in progress: its target, data, and the
                          \* target file as the write found it
  crashed,                \* the process died during a write
  \* ---- calls of the pure functions ------------------------------------
  fn,                     \* the latest call: [name, args, result]
  \* ---- withCurrentStore (middleware.js) -------------------------------
  commandResult,          \* how the wrapped command ended
  \* ---- access list (access.js) ----------------------------------------
  nStores,                \* stores.length
  queue,                  \* the limiter's queue of verifications not yet started
  active,                 \* the verifications started and not yet finished
  finished,               \* the verifications that have finished
  \* ---- theme watch: its options (theme.js, input.js) -------------------
  arrays,                 \* the arrays the options share: name -> patterns
  options,                \* the option values: [block, allow] name an array
  argv,                   \* the options parsed so far
  cpc,                    \* where the command stands: parsing, watching,
                          \* no theme
  \* ---- two CLI processes on one credentials file (services/auth.js) ----
  procs,                  \* process -> [pc, text, changed]: where it stands,
                          \* its credentialsText and credentialsTextChanged
  tmps,                   \* the temporary files by their random suffix
  history                 \* the versions of CREDENTIALS_FILE in order:
                          \* [by, file], by = 0 for the original

watchVars == <<wpc, stopped, handlers, requests, nEvents, lastEvent, allowlist, blocklist, files,
               watchers, watchError, closed>>
gitVars   == <<gitRoot, gitObserver, branch, stashList, indexLock>>
credVars  == <<credFile, credentialsText, credentialsTextChanged, calls, written>>
storeVars == <<cwd, localFiles, globalFile, commandStore, globalDefault,
               scopeDefault, scopeFolder, current>>
cliVars   == <<arrays, options, argv, cpc>>
concVars  == <<procs, tmps, history>>
extVars   == <<tmpFile, wr, crashed, fn, commandResult, nStores, queue, active, finished, cliVars,
               concVars>>
vars      == <<watchVars, gitVars, credVars, storeVars, extVars>>

(***************************************************************************)
(* Bounds                                                                  *)
(***************************************************************************)
MaxEvents == 2      \* filesystem events delivered in one watch session
MaxLines  == 2      \* lines of the credential file a process starts from
MaxCalls  == 3      \* calls on Auth that the model follows
MaxBody   == 2      \* pieces in the body of a store reference
MaxStores == 12     \* stores with saved credentials that access list verifies
MaxArgs   == 3      \* options given to theme watch
MaxEdits  == 2      \* calls on Auth followed when single edits are examined

(***************************************************************************)
(* Strings as sequences of pieces                                          *)
(***************************************************************************)
\* the pieces String.prototype.trim and /\s+/ treat as white space
IsSpace(p) == p \in {" ", "\n", "\t"}

RECURSIVE trimStart(_)
trimStart(t) ==
  IF t # <<>> /\ IsSpace(Head(t)) THEN trimStart(Tail(t)) ELSE t

RECURSIVE trimEnd(_)
trimEnd(t) ==
  IF t # <<>> /\ IsSpace(t[Len(t)]) THEN trimEnd(SubSeq(t, 1, Len(t) - 1)) ELSE t

trim(t) == trimEnd(trimStart(t))

\* String.prototype.indexOf for a one-piece needle: 1-based, 0 when absent
indexOf(t, p) ==
  IF \E i \in 1..Len(t) : t[i] = p
  THEN CHOOSE i \in 1..Len(t) : t[i] = p /\ \A j \in 1..(i - 1) : t[j] # p
  ELSE 0

\* String.prototype.split(sep) for a one-piece separator
RECURSIVE split(_, _)
split(t, sep) ==
  LET i == indexOf(t, sep)
  IN IF i = 0 THEN <<t>>
     ELSE <<SubSeq(t, 1, i - 1)>> \o split(SubSeq(t, i + 1, Len(t)), sep)

\* Array.prototype.join(sep)
RECURSIVE join(_, _)
join(lines, sep) ==
  IF lines = <<>> THEN <<>>
  ELSE IF Len(lines) = 1 THEN lines[1]
  ELSE lines[1] \o <<sep>> \o join(Tail(lines), sep)

\* String.prototype.split(/\s+/): the fields between runs of white space
RECURSIVE splitSpaces(_)
splitSpaces(t) ==
  IF \A i \in 1..Len(t) : ~IsSpace(t[i]) THEN <<t>>
  ELSE LET i == CHOOSE k \in 1..Len(t) :
                  IsSpace(t[k]) /\ \A j \in 1..(k - 1) : ~IsSpace(t[j])
       IN <<SubSeq(t, 1, i - 1)>> \o splitSpaces(trimStart(SubSeq(t, i, Len(t))))


(***************************************************************************)
(* PathPolicy: ThemeWatcher.isKnownPath                                    *)
(***************************************************************************)
Folder == << <<"theme">> >>

PTemplate  == << <<"templates">>, <<"a", ".json">> >>
PComponent == << <<"components">>, <<"foo", ".json">> >>
PLibrary   == << <<"assets">>, <<"library">>, <<"vendor", ".js">> >>
PReadme    == << <<"README", ".md">> >>
Paths      == {PTemplate, PComponent, PLibrary}
Edited     == {PTemplate}

Contents   == {"{}", "x"}

\* glob patterns, segment by segment: "*" stands for any run of pieces
GComponentsJson == << <<"components">>, <<"*", ".json">> >>
GTemplatesAll   == << <<"templates">>, <<"**">> >>

\* one segment against one segment pattern ("*" never crosses a "/")
RECURSIVE SegMatch(_, _)
SegMatch(seg, pat) ==
  IF pat = <<>> THEN seg = <<>>
  ELSE IF Head(pat) = "*"
       THEN \E k \in 0..Len(seg) : SegMatch(SubSeq(seg, k + 1, Len(seg)), Tail(pat))
       ELSE seg # <<>> /\ Head(seg) = Head(pat) /\ SegMatch(Tail(seg), Tail(pat))

\* a whole path against a glob ("**" stands for any number of segments)
RECURSIVE GlobMatch(_, _)
GlobMatch(path, glob) ==
  IF glob = <<>> THEN path = <<>>
  ELSE IF Head(glob) = <<"**">>
       THEN \E k \in 0..Len(path) : GlobMatch(SubSeq(path, k + 1, Len(path)), Tail(glob))
       ELSE path # <<>> /\ SegMatch(Head(path), Head(glob))
                        /\ GlobMatch(Tail(path), Tail(glob))

\* micromatch.isMatch(path, patterns): some pattern of the list matches
IsMatch(path, patterns) ==
  \E i \in 1..Len(patterns) : GlobMatch(path, patterns[i])

\* path.startsWith(dir + "/") for a directory prefix given as segments
StartsWithDir(path, dir) ==
  Len(path) > Len(dir) /\ SubSeq(path, 1, Len(dir)) = dir

isKnownPathBlockFirst(path, allow, block) ==
  IF IsMatch(path, block) THEN FALSE
  ELSE IF IsMatch(path, allow) THEN TRUE
  ELSE IF StartsWithDir(path, << <<"partials">> >>) THEN TRUE
  ELSE IF StartsWithDir(path, << <<"components">> >>) THEN TRUE
  ELSE IF StartsWithDir(path, << <<"templates">> >>) THEN TRUE
  ELSE IF StartsWithDir(path, << <<"assets">>, <<"library">> >>) THEN FALSE
  ELSE IF StartsWithDir(path, << <<"assets">> >>) THEN TRUE
  ELSE IF StartsWithDir(path, << <<"config">> >>) THEN TRUE
  ELSE FALSE

isKnownPath(path, allow, block) ==
  IF IsMatch(path, allow) THEN TRUE
  ELSE IF IsMatch(path, block) THEN FALSE
  ELSE IF StartsWithDir(path, << <<"partials">> >>) THEN TRUE
  ELSE IF StartsWithDir(path, << <<"components">> >>) THEN TRUE
  ELSE IF StartsWithDir(path, << <<"templates">> >>) THEN TRUE
  ELSE IF StartsWithDir(path, << <<"assets">>, <<"library">> >>) THEN FALSE
  ELSE IF StartsWithDir(path, << <<"assets">> >>) THEN TRUE
  ELSE IF StartsWithDir(path, << <<"config">> >>) THEN TRUE
  ELSE FALSE

\* path.relative(folder, fullpath) for a fullpath below folder
Relative(folder, fullpath) ==
  SubSeq(fullpath, Len(folder) + 1, Len(fullpath))

\* the paths and lists isKnownPath is called with on its own
PPartial  == << <<"partials">>, <<"p", ".liquid">> >>
PAsset    == << <<"assets">>, <<"app", ".css">> >>
PConfig   == << <<"config">>, <<"settings", ".json">> >>
PLibFile  == << <<"assets">>, <<"library">> >>
PTopFile  == << <<"templates">> >>

PolicyPaths ==
  { PPartial, PComponent, PTemplate, PLibrary, PAsset, PConfig, PReadme, PLibFile, PTopFile }

GLibraryAll == << <<"assets">>, <<"library">>, <<"**">> >>
GAll        == << <<"**">> >>

AllowLists == { <<>>, <<GComponentsJson>>, <<GLibraryAll>>, <<GAll>> }
BlockLists == { <<>>, <<GComponentsJson>>, <<GTemplatesAll>>, <<GAll>>,
                <<GComponentsJson, GTemplatesAll>> }

\* a call of watcher.isKnownPath(path)
isKnownPathCall(path) ==
  /\ fn' = [name |-> "isKnownPath", args |-> <<path>>,
            result |-> isKnownPath(path, allowlist, blocklist)]
  /\ UNCHANGED <<tmpFile, wr, crashed, commandResult, nStores, queue, active, finished, cliVars, concVars>>
  /\ UNCHANGED <<watchVars, gitVars, credVars, storeVars>>

(***************************************************************************)
(* GitObserver                                                             *)
(***************************************************************************)
Branches == {"main", "dev"}
Stashes  == {<<>>, <<"stash@{0}">>}

\* crypto sha1 digest of the stash list text (collision free on Stashes)
Sha1(text) == <<"sha1", text>>

isIndexLocked == indexLock
readBranch    == branch
readStash     == Sha1(stashList)

\* GitObserver.pin: the snapshot kept in this.branch / this.stash
Pinned == [branch |-> readBranch, stash |-> readStash]

\* GitObserver.check without the index lock test
checkNoLock(obs) ==
  obs.branch # readBranch \/ obs.stash # readStash

\* GitObserver.check
check(obs) ==
  isIndexLocked \/ obs.branch # readBranch \/ obs.stash # readStash

\* ThemeWatcher.#checkGitRepository
checkGitRepository ==
  gitObserver # <<>> /\ check(gitObserver[1])

\* the observer on its own: the repository states it is used on
RepoBranches == Branches \cup {""}
RepoStashes  == Stashes \cup { <<"stash@{0}", "stash@{1}">> }

\* gitObserver.pin()
pin ==
  /\ gitObserver = <<>>
  /\ gitObserver' = <<Pinned>>
  /\ UNCHANGED <<gitRoot, branch, stashList, indexLock>>
  /\ UNCHANGED <<watchVars, credVars, storeVars, extVars>>

\* gitObserver.check()
checkCall ==
  /\ gitObserver # <<>>
  /\ fn' = [name |-> "check", args |-> <<>>, result |-> check(gitObserver[1])]
  /\ UNCHANGED <<tmpFile, wr, crashed, commandResult, nStores, queue, active, finished, cliVars, concVars>>
  /\ UNCHANGED <<watchVars, gitVars, credVars, storeVars>>

\* the repository changes under the observer
RepoSwitch(b) ==
  /\ branch # b
  /\ branch' = b
  /\ UNCHANGED <<gitRoot, gitObserver, stashList, indexLock>>
  /\ UNCHANGED <<watchVars, credVars, storeVars, extVars>>

RepoStash(s) ==
  /\ stashList # s
  /\ stashList' = s
  /\ UNCHANGED <<gitRoot, gitObserver, branch, indexLock>>
  /\ UNCHANGED <<watchVars, credVars, storeVars, extVars>>

RepoLock(l) ==
  /\ indexLock # l
  /\ indexLock' = l
  /\ UNCHANGED <<gitRoot, gitObserver, branch, stashList>>
  /\ UNCHANGED <<watchVars, credVars, storeVars, extVars>>

(***************************************************************************)
(* ThemeWatcher.watch                                                      *)
(***************************************************************************)
EventKinds == {"add", "change", "unlink", "addDir"}
Signals    == {"SIGINT", "SIGTERM"}
Outcomes   == {"resolved", "rejected"}

\* the configurations the watcher is constructed with (config.allow, config.block)
Configs ==
  { [allow |-> <<>>,                  block |-> <<GComponentsJson>>],
    [allow |-> <<GComponentsJson>>,   block |-> <<GComponentsJson>>],
    [allow |-> <<>>,                  block |-> <<GComponentsJson, GTemplatesAll>>] }

WatchInit ==
  /\ wpc = "idle"
  /\ stopped = FALSE
  /\ handlers = FALSE
  /\ requests = <<>>
  /\ nEvents = 0
  /\ lastEvent = [event |-> "none", path |-> <<>>]
  /\ \E c \in Configs : allowlist = c.allow /\ blocklist = c.block
  /\ files = [p \in Paths |-> "{}"]
  /\ watchers = 0
  /\ watchError = "none"
  /\ closed = FALSE

GitInit ==
  /\ gitRoot \in BOOLEAN
  /\ gitObserver = <<>>
  /\ branch = "main"
  /\ stashList = <<>>
  /\ indexLock = FALSE

\* if (this.watcher): this.watcher is set by the first watch() and never unset
AlreadyWatchingNever == FALSE

AlreadyWatching == watchers > 0

\* watch(folder) up to the first await: pin the repository, create the
\* watcher, register the "all" listener and the signal listeners
Watch ==
  /\ wpc \notin {"terminated", "aborted"}
  /\ ~AlreadyWatching
  /\ wpc' = "listening"
  /\ watchers' = watchers + 1
  /\ watchError' = watchError
  /\ closed' = closed
  /\ handlers' = TRUE
  /\ gitObserver' = IF gitRoot THEN <<Pinned>> ELSE <<>>
  /\ UNCHANGED <<stopped, requests, nEvents, lastEvent, allowlist, blocklist, files>>
  /\ UNCHANGED <<gitRoot, branch, stashList, indexLock>>
  /\ UNCHANGED <<credVars, storeVars, extVars>>

\* watch(folder) on an instance whose this.watcher is set: the promise it
\* returns is rejected with Error("Already watching")
WatchRejected ==
  /\ wpc \notin {"terminated", "aborted"}
  /\ AlreadyWatching
  /\ watchError' = "Already watching"
  /\ UNCHANGED <<wpc, stopped, handlers, requests, nEvents, lastEvent, allowlist, blocklist,
                 files, watchers, closed>>
  /\ UNCHANGED <<gitVars, credVars, storeVars>>
  /\ UNCHANGED extVars

\* const action = this.isKnownPath(relativePath) ? event : "SKIP"
ActionNoPolicy(event, relativePath, allow, block) == event

Action(event, relativePath, allow, block) ==
  IF isKnownPath(relativePath, allow, block) THEN event ELSE "SKIP"

\* the switch of the "all" handler: the promise it pushes for an action, if
\* any.  guard and late record what the handler had seen: the result of its
\* #checkGitRepository() call, and whether stop() had already been called
\* when the handler was entered.
PushedNoDelete(action, relativePath, content, guard, late) ==
  IF action \in {"change", "add"}
  THEN << [kind |-> "WRITE", path |-> relativePath, content |-> content,
           status |-> "pending", guard |-> guard, late |-> late] >>
  ELSE << >>

Pushed(action, relativePath, content, guard, late) ==
  IF action \in {"change", "add"}
  THEN << [kind |-> "WRITE", path |-> relativePath, content |-> content,
           status |-> "pending", guard |-> guard, late |-> late] >>
  ELSE IF action = "unlink"
  THEN << [kind |-> "DELETE", path |-> relativePath, content |-> "",
           status |-> "pending", guard |-> guard, late |-> late] >>
  ELSE << >>

\* the "all" listener, called by the filesystem watcher while it is attached
\* (until watcher.close() is called)
OnAll(event, fullpath) ==
  /\ wpc = "listening"
  /\ nEvents < MaxEvents
  /\ LET relativePath == Relative(Folder, fullpath)
         action  == Action(event, relativePath, allowlist, blocklist)
         guard   == checkGitRepository
         content == files[relativePath]
     IN /\ stopped' = (stopped \/ guard)
        /\ requests' = requests \o Pushed(action, relativePath, content, guard, stopped)
        /\ lastEvent' = [event |-> event, path |-> relativePath]
  /\ nEvents' = nEvents + 1
  /\ UNCHANGED <<wpc, handlers, allowlist, blocklist, files>>
  /\ UNCHANGED <<watchers, watchError, closed, gitVars, credVars, storeVars, extVars>>

\* SIGINT / SIGTERM while the listeners are registered: stop(), and then the
\* continuation of "await promise" runs before any other callback
SignalStop(sig) ==
  /\ wpc = "listening"
  /\ handlers
  /\ stopped' = TRUE
  /\ handlers' = FALSE
  /\ wpc' = "closing"
  /\ UNCHANGED <<requests, nEvents, lastEvent, allowlist, blocklist, files>>
  /\ UNCHANGED <<watchers, watchError, closed, gitVars, credVars, storeVars, extVars>>

\* SIGINT / SIGTERM once process.off has removed the listeners: the signal's
\* default disposition ends the process
SignalDefault(sig) ==
  /\ wpc \in {"closing", "draining"}
  /\ ~handlers
  /\ wpc' = "terminated"
  /\ UNCHANGED <<stopped, handlers, requests, nEvents, lastEvent, allowlist, blocklist, files>>
  /\ UNCHANGED <<watchers, watchError, closed, gitVars, credVars, storeVars, extVars>>

\* the continuation of "await promise" after the handler itself called stop():
\* the finally block, then watcher.close() is called
Resume ==
  /\ wpc = "listening"
  /\ stopped
  /\ handlers' = FALSE
  /\ wpc' = "closing"
  /\ UNCHANGED <<stopped, requests, nEvents, lastEvent, allowlist, blocklist, files>>
  /\ UNCHANGED <<watchers, watchError, closed, gitVars, credVars, storeVars, extVars>>

\* Promise.all(this.requests) called without awaiting watcher.close()
CloseNotAwaited ==
  /\ wpc = "closing"
  /\ wpc' = "draining"
  /\ closed' = closed
  /\ UNCHANGED <<stopped, handlers, requests, nEvents, lastEvent, allowlist, blocklist, files>>
  /\ UNCHANGED <<watchers, watchError, gitVars, credVars, storeVars, extVars>>

\* await this.watcher.close() has resolved: Promise.all(this.requests) is
\* called and awaited
CloseDone ==
  /\ wpc = "closing"
  /\ wpc' = "draining"
  /\ closed' = TRUE
  /\ UNCHANGED <<stopped, handlers, requests, nEvents, lastEvent, allowlist, blocklist, files>>
  /\ UNCHANGED <<watchers, watchError, gitVars, credVars, storeVars, extVars>>

\* what Node does with a promise rejected while no handler is attached to
\* it: --unhandled-rejections=throw (the default) ends the process, warn and
\* none let it run on
UnhandledRejections == {"throw", "warn"}

\* the promise of write() / unlink() settles: it resolves with the response
\* body (an error body is logged), or rejects when fetch or response.json()
\* fails.  Nothing handles the promises of this.requests before Promise.all
\* is called on them.
Settle(i, outcome) ==
  /\ wpc \in {"listening", "closing", "draining"}
  /\ i \in 1..Len(requests)
  /\ requests[i].status = "pending"
  /\ requests' = [requests EXCEPT ![i].status = outcome]
  /\ IF outcome = "rejected" /\ wpc \in {"listening", "closing"}
     THEN \E mode \in UnhandledRejections :
            wpc' = IF mode = "throw" THEN "aborted" ELSE wpc
     ELSE wpc' = wpc
  /\ UNCHANGED <<stopped, handlers, nEvents, lastEvent, allowlist, blocklist, files>>
  /\ UNCHANGED <<watchers, watchError, closed, gitVars, credVars, storeVars, extVars>>

NoPending == \A i \in 1..Len(requests) : requests[i].status # "pending"

\* Promise.all resolves once every request has resolved
DrainResolve ==
  /\ wpc = "draining"
  /\ \A i \in 1..Len(requests) : requests[i].status = "resolved"
  /\ wpc' = "returned"
  /\ UNCHANGED <<stopped, handlers, requests, nEvents, lastEvent, allowlist, blocklist, files>>
  /\ UNCHANGED <<watchers, watchError, closed, gitVars, credVars, storeVars, extVars>>

\* Promise.all rejects as soon as one request has rejected
DrainReject ==
  /\ wpc = "draining"
  /\ \E i \in 1..Len(requests) : requests[i].status = "rejected"
  /\ wpc' = "threw"
  /\ UNCHANGED <<stopped, handlers, requests, nEvents, lastEvent, allowlist, blocklist, files>>
  /\ UNCHANGED <<watchers, watchError, closed, gitVars, credVars, storeVars, extVars>>

\* the developer (or a git operation) rewrites a file of the folder
FileEdit(p, c) ==
  /\ wpc = "listening"
  /\ files[p] # c
  /\ files' = [files EXCEPT ![p] = c]
  /\ UNCHANGED <<wpc, stopped, handlers, requests, nEvents, lastEvent, allowlist, blocklist>>
  /\ UNCHANGED <<watchers, watchError, closed, gitVars, credVars, storeVars, extVars>>

\* the repository is as watch() found it
Untouched == ~indexLock /\ gitObserver = <<Pinned>>

\* a repository operation during the session (the model follows one operation
\* per session): git switch, git stash, an index lock being held
GitSwitch(b) ==
  /\ wpc = "listening"
  /\ Untouched
  /\ branch # b
  /\ branch' = b
  /\ UNCHANGED <<gitRoot, gitObserver, stashList, indexLock>>
  /\ UNCHANGED <<watchVars, credVars, storeVars, extVars>>

GitStash(s) ==
  /\ wpc = "listening"
  /\ Untouched
  /\ stashList # s
  /\ stashList' = s
  /\ UNCHANGED <<gitRoot, gitObserver, branch, indexLock>>
  /\ UNCHANGED <<watchVars, credVars, storeVars, extVars>>

GitLock(l) ==
  /\ wpc = "listening"
  /\ Untouched
  /\ indexLock # l
  /\ indexLock' = l
  /\ UNCHANGED <<gitRoot, gitObserver, branch, stashList>>
  /\ UNCHANGED <<watchVars, credVars, storeVars, extVars>>

(***************************************************************************)
(* theme watch: --block, --allow, --unsafe (theme.js, input.js)            *)
(*                                                                         *)
(* An option value is an array, and arrays are shared by reference: the    *)
(* value of an option names its array in the variable arrays.  commander   *)
(* hands an option's processing function the argument and the option's     *)
(* previous value, which starts as the default value given to .option().   *)
(***************************************************************************)
\* .option("--block ...", collector, WATCH_UNSAFE_FILES) and
\* .option("--allow ...", collector, []): the defaults
OptionsInit ==
  /\ arrays = [a \in {"WATCH_UNSAFE_FILES", "allow"} |->
                IF a = "WATCH_UNSAFE_FILES" THEN <<GComponentsJson>> ELSE <<>>]
  /\ options = [block |-> "WATCH_UNSAFE_FILES", allow |-> "allow", unsafe |-> FALSE]
  /\ argv = <<>>
  /\ cpc = "parsing"

\* the patterns a user gives to --block and --allow
UserBlocks == { GTemplatesAll, GLibraryAll }
UserAllows == { GComponentsJson, GLibraryAll }

\* validationCollector: (arg, args) => ((args ??= initial), args.push(arg), args)
\* called with the option's previous value: the push goes into that array
\* and the array itself is the new value
validationCollector(name, arg) ==
  /\ cpc = "parsing"
  /\ Len(argv) < MaxArgs
  /\ arrays' = [arrays EXCEPT ![options[name]] = Append(@, arg)]
  /\ argv' = Append(argv, [option |-> name, arg |-> arg])
  /\ UNCHANGED <<options, cpc>>
  /\ UNCHANGED <<tmpFile, wr, crashed, fn, commandResult, nStores, queue, active, finished, concVars>>
  /\ UNCHANGED <<watchVars, gitVars, credVars, storeVars>>

\* --unsafe
optionUnsafe ==
  /\ cpc = "parsing"
  /\ Len(argv) < MaxArgs
  /\ ~options.unsafe
  /\ options' = [options EXCEPT !.unsafe = TRUE]
  /\ argv' = Append(argv, [option |-> "unsafe", arg |-> <<>>])
  /\ UNCHANGED <<arrays, cpc>>
  /\ UNCHANGED <<tmpFile, wr, crashed, fn, commandResult, nStores, queue, active, finished, concVars>>
  /\ UNCHANGED <<watchVars, gitVars, credVars, storeVars>>

\* the action of theme watch: options.allow.push(...WATCH_UNSAFE_FILES) when
\* --unsafe is given, the theme is looked up, and a ThemeWatcher is made of
\* the options and watch(folder) called on it (outside a repository)
watchCommand(themeFound) ==
  /\ cpc = "parsing"
  /\ wpc = "idle"
  /\ arrays' = IF options.unsafe
               THEN [arrays EXCEPT ![options.allow] = @ \o arrays["WATCH_UNSAFE_FILES"]]
               ELSE arrays
  /\ IF themeFound
     THEN /\ cpc' = "watching"
          /\ allowlist' = arrays'[options.allow]
          /\ blocklist' = arrays'[options.block]
          /\ wpc' = "listening"
          /\ watchers' = watchers + 1
          /\ handlers' = TRUE
     ELSE /\ cpc' = "no theme"
          /\ UNCHANGED <<allowlist, blocklist, wpc, watchers, handlers>>
  /\ UNCHANGED <<options, argv>>
  /\ UNCHANGED <<stopped, requests, nEvents, lastEvent, files, watchError, closed>>
  /\ UNCHANGED <<tmpFile, wr, crashed, fn, commandResult, nStores, queue, active, finished, concVars>>
  /\ UNCHANGED <<gitVars, credVars, storeVars>>

(***************************************************************************)
(* Auth: store references and the credentials file                         *)
(***************************************************************************)
\* pieces made of [a-z0-9_-] only
LabelPieces == {"shop1", "shop2", "test"}

\* pieces that stand for a whole /[0-9a-f]{32,50}:[0-9a-f]{32,50}/ string
CredentialPieces == {"k1", "k2"}

AllIn(t, S) == \A i \in 1..Len(t) : t[i] \in S

\* /^([a-z0-9_-]+)<suffix>$/.test(store)
LabelWithSuffix(store, suffix) ==
  /\ Len(store) >= 2
  /\ store[Len(store)] = suffix
  /\ AllIn(SubSeq(store, 1, Len(store) - 1), LabelPieces)

StripEnd(store, p) ==
  IF store # <<>> /\ store[Len(store)] = p THEN SubSeq(store, 1, Len(store) - 1) ELSE store

\* if (store.startsWith(prefix)) store = store.slice(prefix.length)
StripStart(store, prefix) ==
  IF Len(store) >= Len(prefix) /\ SubSeq(store, 1, Len(prefix)) = prefix
  THEN SubSeq(store, Len(prefix) + 1, Len(store))
  ELSE store

\* "https://", "http://" and "//": every "/" is a piece of its own
Https      == <<"https:", "/", "/">>
Http       == <<"http:", "/", "/">>
SlashSlash == <<"/", "/">>

\* the four slices at the head of parseStoreReference, with the third one
\* taking as many characters as the second
StrippedSlice8(input) ==
  LET a == StripStart(StripEnd(input, "/"), Https)
      b == IF Len(a) >= 3 /\ SubSeq(a, 1, 3) = Http THEN SubSeq(a, 5, Len(a)) ELSE a
  IN StripStart(b, SlashSlash)

Stripped(input) ==
  StripStart(StripStart(StripStart(StripEnd(input, "/"), Https), Http), SlashSlash)

\* a bare label returned as it is
parseStoreReferenceNoSuffix(input) ==
  LET store == Stripped(input)
  IN IF store = <<"test">> THEN [ok |-> TRUE, store |-> <<"test", ".localhost">>]
     ELSE IF LabelWithSuffix(store, ".jumpseller.com") THEN [ok |-> TRUE, store |-> store]
     ELSE IF LabelWithSuffix(store, ".localhost") THEN [ok |-> TRUE, store |-> store]
     ELSE IF store # <<>> /\ AllIn(store, LabelPieces)
          THEN [ok |-> TRUE, store |-> store]
     ELSE [ok |-> FALSE, store |-> store]

parseStoreReference(input) ==
  LET store == Stripped(input)
  IN IF store = <<"test">> THEN [ok |-> TRUE, store |-> <<"test", ".localhost">>]
     ELSE IF LabelWithSuffix(store, ".jumpseller.com") THEN [ok |-> TRUE, store |-> store]
     ELSE IF LabelWithSuffix(store, ".localhost") THEN [ok |-> TRUE, store |-> store]
     ELSE IF store # <<>> /\ AllIn(store, LabelPieces)
          THEN [ok |-> TRUE, store |-> store \o <<".jumpseller.com">>]
     ELSE [ok |-> FALSE, store |-> store]

validCredentials(credentials) ==
  Len(credentials) = 1 /\ credentials[1] \in CredentialPieces

\* the store references parseStoreReference is called with: a body of pieces,
\* behind any of the prefixes and before an optional "/"
BodyPieces == LabelPieces \cup {"Shop", " ", "!", ".jumpseller.com", ".localhost", "/"}

RECURSIVE Bodies(_)
Bodies(n) ==
  IF n = 0 THEN { <<>> }
  ELSE LET shorter == Bodies(n - 1)
       IN shorter \cup { Append(b, x) : b \in {y \in shorter : Len(y) = n - 1},
                                         x \in BodyPieces }

StorePrefixes == { <<>>, Https, Http, SlashSlash, Https \o Http }

StoreInputs ==
  { pre \o body \o post :
      pre \in StorePrefixes, body \in Bodies(MaxBody), post \in { <<>>, <<"/">> } }

\* a call of parseStoreReference(input), the first of the process
parseStoreReferenceCall(input) ==
  /\ fn.name = "none"
  /\ fn' = [name |-> "parseStoreReference", args |-> <<input>>,
            result |-> parseStoreReference(input)]
  /\ UNCHANGED <<tmpFile, wr, crashed, commandResult, nStores, queue, active, finished, cliVars, concVars>>
  /\ UNCHANGED <<watchVars, gitVars, credVars, storeVars>>

splitLines(text) ==
  IF Len(text) > 0 THEN split(text, "\n") ELSE <<>>

\* lines.findIndex((line) => line), 0-based, -1 when every line is empty
findIndexNonEmpty(lines) ==
  IF \E i \in 1..Len(lines) : lines[i] # <<>>
  THEN (CHOOSE i \in 1..Len(lines) :
          lines[i] # <<>> /\ \A j \in 1..(i - 1) : lines[j] = <<>>) - 1
  ELSE -1

\* lines.splice(0, n): a negative delete count removes nothing
spliceFront(lines, n) ==
  IF n <= 0 THEN lines ELSE SubSeq(lines, n + 1, Len(lines))

\* joinLines with the splice taking the first non-empty line as well
joinLinesOffByOne(lines) ==
  LET kept == spliceFront(lines, findIndexNonEmpty(lines) + 1)
  IN IF Len(kept) > 0 THEN join(kept, "\n") \o <<"\n">> ELSE <<>>

\* lines.splice(0, lines.findIndex((line) => line)), then join
joinLines(lines) ==
  LET kept == spliceFront(lines, findIndexNonEmpty(lines))
  IN IF Len(kept) > 0 THEN join(kept, "\n") \o <<"\n">> ELSE <<>>

canonicalLine(line) ==
  LET index == indexOf(line, "#")
  IN trim(IF index = 0 THEN line ELSE SubSeq(line, 1, index - 1))

\* the value a missing array element destructures to
Undefined == <<"undefined">>

Field(fields, n) == IF Len(fields) >= n THEN fields[n] ELSE Undefined

\* const [lineDomain] = canonicalLine(line).split(/\s+/)
lineDomain(line) == Field(splitSpaces(canonicalLine(line)), 1)

lineCredentials(line) == Field(splitSpaces(canonicalLine(line)), 2)

readFileIfExists(file) == IF file.exists THEN file.text ELSE <<>>

\* #loadCredentialsFile: this.credentialsText ??= readFileIfExists(...).trim()
loadCredentialsFile ==
  IF credentialsText # <<>> THEN credentialsText[1]
  ELSE trim(readFileIfExists(credFile))

MapHas(map, domain) == \E i \in 1..Len(map) : map[i].domain = domain

\* Map.prototype.get: <<value>>, or <<>> for undefined
MapGet(map, domain) ==
  IF MapHas(map, domain)
  THEN <<(map[CHOOSE i \in 1..Len(map) : map[i].domain = domain]).credentials>>
  ELSE <<>>

\* the forEach of listCredentials with domains.set for a domain already there
RECURSIVE collectLastWins(_, _)
collectLastWins(lines, domains) ==
  IF lines = <<>> THEN domains
  ELSE LET domain      == lineDomain(Head(lines))
           credentials == lineCredentials(Head(lines))
           parsed      == parseStoreReference(domain)
       IN IF ~parsed.ok \/ domain # parsed.store THEN collectLastWins(Tail(lines), domains)
          ELSE IF ~validCredentials(credentials) THEN collectLastWins(Tail(lines), domains)
          ELSE IF MapHas(domains, domain)
          THEN collectLastWins(Tail(lines),
                 [i \in 1..Len(domains) |->
                    IF domains[i].domain = domain
                    THEN [domain |-> domain, credentials |-> credentials]
                    ELSE domains[i]])
          ELSE collectLastWins(Tail(lines),
                 Append(domains, [domain |-> domain, credentials |-> credentials]))

\* the forEach of listCredentials over the lines that have a canonical part
RECURSIVE collect(_, _)
collect(lines, domains) ==
  IF lines = <<>> THEN domains
  ELSE LET domain      == lineDomain(Head(lines))
           credentials == lineCredentials(Head(lines))
           parsed      == parseStoreReference(domain)
       IN IF ~parsed.ok \/ domain # parsed.store THEN collect(Tail(lines), domains)
          ELSE IF ~validCredentials(credentials) THEN collect(Tail(lines), domains)
          ELSE IF MapHas(domains, domain) THEN collect(Tail(lines), domains)
          ELSE collect(Tail(lines),
                 Append(domains, [domain |-> domain, credentials |-> credentials]))

HasCanonical(line) == canonicalLine(line) # <<>>

\* listCredentials applied to the loaded text
listCredentials(content) ==
  collect(SelectSeq(splitLines(content), HasCanonical), <<>>)

getCredentials(content, domain) == MapGet(listCredentials(content), domain)

Entry(domain, credentials) == domain \o <<" ">> \o credentials

\* the lines addCredentials builds from the loaded text
addedLinesFirstOnly(content, domain, credentials) ==
  LET lines == splitLines(content)
  IN IF \E i \in 1..Len(lines) : lineDomain(lines[i]) = domain
     THEN lines
     ELSE Append(lines, Entry(domain, credentials))

addedLines(content, domain, credentials) ==
  LET lines   == splitLines(content)
      mapped  == [i \in 1..Len(lines) |->
                    IF domain # lineDomain(lines[i]) THEN lines[i]
                    ELSE Entry(domain, credentials)]
      missing == \A i \in 1..Len(lines) : domain # lineDomain(lines[i])
  IN IF missing THEN Append(mapped, Entry(domain, credentials)) ELSE mapped

\* removeCredentials dropping the first line of the domain only
removedLinesFirstOnly(content, domain) ==
  LET lines == splitLines(content)
      first == CHOOSE i \in 1..(Len(lines) + 1) :
                 /\ i <= Len(lines) => lineDomain(lines[i]) = domain
                 /\ \A j \in 1..(i - 1) : lineDomain(lines[j]) # domain
  IN SubSeq(lines, 1, first - 1) \o SubSeq(lines, first + 1, Len(lines))

\* the lines removeCredentials keeps
removedLines(content, domain) ==
  LET lines == splitLines(content)
      keep(line) == domain # lineDomain(line)
  IN SelectSeq(lines, keep)

\* the calls made so far
Called(call) == Append(calls, call)

NoCall == <<>>

\* the model follows one process, and the start of the next one
Running ==
  /\ Len(calls) < MaxCalls
  /\ \A i \in 1..Len(calls) : calls[i].op # "exit"

addCredentials(domain, credentials) ==
  /\ Running
  /\ credentialsText' = <<joinLines(addedLines(loadCredentialsFile, domain, credentials))>>
  /\ credentialsTextChanged' = TRUE
  /\ calls' = Called([op |-> "add", domain |-> domain, credentials |-> credentials])
  /\ UNCHANGED <<credFile, written>>
  /\ UNCHANGED <<watchVars, gitVars, storeVars, extVars>>

removeCredentials(domain) ==
  /\ Running
  /\ credentialsText' = <<joinLines(removedLines(loadCredentialsFile, domain))>>
  /\ credentialsTextChanged' = TRUE
  /\ calls' = Called([op |-> "remove", domain |-> domain, credentials |-> NoCall])
  /\ UNCHANGED <<credFile, written>>
  /\ UNCHANGED <<watchVars, gitVars, storeVars, extVars>>

\* #writeCredentialsFile: the temporary file renamed over CREDENTIALS_FILE
writtenFile == [exists |-> TRUE, text |-> trimStart(credentialsText[1])]

flush ==
  /\ Running
  /\ credFile' = IF credentialsTextChanged THEN writtenFile ELSE credFile
  /\ written' = IF credentialsTextChanged THEN written + 1 ELSE written
  /\ calls' = Called([op |-> "flush", domain |-> NoCall, credentials |-> NoCall])
  /\ UNCHANGED <<credentialsText, credentialsTextChanged>>
  /\ UNCHANGED <<watchVars, gitVars, storeVars, extVars>>

\* the CLI exits and is started again: a fresh Auth singleton
NewProcess ==
  /\ Running
  /\ credentialsText' = <<>>
  /\ credentialsTextChanged' = FALSE
  /\ calls' = Called([op |-> "exit", domain |-> NoCall, credentials |-> NoCall])
  /\ UNCHANGED <<credFile, written>>
  /\ UNCHANGED <<watchVars, gitVars, storeVars, extVars>>

Domains     == { <<"shop1", ".jumpseller.com">>, <<"test", ".localhost">> }
Credentials == { <<"k1">>, <<"k2">> }

\* the lines a credentials file may hold before the CLI touches it
FileLines ==
  { <<>>,
    <<"shop1", ".jumpseller.com", " ", "k1">>,
    <<" ", "shop1", ".jumpseller.com", " ", "k2", " ", "#", "old">>,
    <<"test", ".localhost", " ", "k1">>,
    <<"#", "shop1", ".jumpseller.com", " ", "k1">> }

RECURSIVE LineLists(_)
LineLists(n) ==
  IF n = 0 THEN { <<>> }
  ELSE LET shorter == LineLists(n - 1)
       IN shorter \cup { Append(ls, l) : ls \in {x \in shorter : Len(x) = n - 1},
                                          l \in FileLines }

\* the files a process may start from: absent, or lines joined by "\n", with
\* or without a final newline
InitialFiles ==
  { [exists |-> FALSE, text |-> <<>>] } \cup
  { [exists |-> TRUE, text |-> join(ls, "\n") \o tail] :
      ls \in LineLists(MaxLines), tail \in { <<>>, <<"\n">> } }

\* a call of Auth.listCredentials(), the first of the process
listCredentialsCall ==
  /\ fn.name = "none"
  /\ credentialsText' = <<loadCredentialsFile>>
  /\ fn' = [name |-> "listCredentials", args |-> <<>>,
            result |-> listCredentials(loadCredentialsFile)]
  /\ UNCHANGED <<credFile, credentialsTextChanged, calls, written>>
  /\ UNCHANGED <<tmpFile, wr, crashed, commandResult, nStores, queue, active, finished, cliVars, concVars>>
  /\ UNCHANGED <<watchVars, gitVars, storeVars>>

\* the lines listCredentials may meet: well-formed ones, and malformed ones
ListLines ==
  { <<>>,
    <<"shop1", ".jumpseller.com", " ", "k1">>,
    <<"shop1", ".jumpseller.com", "\t", " ", "k2", " ", "extra">>,
    <<" ", "test", ".localhost", " ", "k2", " ", "#", "note">>,
    <<"#", "shop1", ".jumpseller.com", " ", "k1">>,
    <<" ", "#">>,
    <<"shop1", " ", "k1">>,
    <<"test", " ", "k1">>,
    <<"shop1", ".jumpseller.com", "/", " ", "k1">>,
    <<"shop1", ".jumpseller.com", " ", "bad">>,
    <<"shop1", ".jumpseller.com">>,
    <<"Shop", ".jumpseller.com", " ", "k1">> }

RECURSIVE ListLineLists(_)
ListLineLists(n) ==
  IF n = 0 THEN { <<>> }
  ELSE LET shorter == ListLineLists(n - 1)
       IN shorter \cup { Append(ls, l) : ls \in {x \in shorter : Len(x) = n - 1},
                                          l \in ListLines }

ListFiles ==
  { [exists |-> FALSE, text |-> <<>>] } \cup
  { [exists |-> TRUE, text |-> join(ls, "\n") \o tail] :
      ls \in ListLineLists(MaxLines), tail \in { <<>>, <<"\n">> } }

ListInit ==
  /\ credFile \in ListFiles
  /\ credentialsText = <<>>
  /\ credentialsTextChanged = FALSE
  /\ calls = <<>>
  /\ written = 0

CredInit ==
  /\ credFile \in InitialFiles
  /\ credentialsText = <<>>
  /\ credentialsTextChanged = FALSE
  /\ calls = <<>>
  /\ written = 0

\* the credentials part at rest, for the specifications of the other parts
CredIdle ==
  /\ credFile = [exists |-> FALSE, text |-> <<>>]
  /\ credentialsText = <<>>
  /\ credentialsTextChanged = FALSE
  /\ calls = <<>>
  /\ written = 0

\* the watcher and the repository at rest
WatchIdle ==
  /\ wpc = "idle"
  /\ stopped = FALSE
  /\ handlers = FALSE
  /\ requests = <<>>
  /\ nEvents = 0
  /\ lastEvent = [event |-> "none", path |-> <<>>]
  /\ allowlist = <<>>
  /\ blocklist = <<>>
  /\ files = [p \in Paths |-> "{}"]
  /\ watchers = 0
  /\ watchError = "none"
  /\ closed = FALSE
  /\ gitRoot = FALSE
  /\ gitObserver = <<>>
  /\ branch = "main"
  /\ stashList = <<>>
  /\ indexLock = FALSE

(***************************************************************************)
(* Auth: two processes on one credentials file                             *)
(*                                                                         *)
(* Each process loads the file, edits its text (after a prompt, for add),  *)
(* and flushes: writeFileSync creates the temporary file and fills it,     *)
(* renameSync moves it over CREDENTIALS_FILE.  rename(2) is atomic.        *)
(***************************************************************************)
Procs == {1, 2}

\* `${CREDENTIALS_FILE}.tmp.${Math.random()...}` with one name for all
tmpFixed(p) == "r1"

\* `${CREDENTIALS_FILE}.tmp.${Math.random().toString(36).slice(2)}`: the
\* suffix a process draws (two processes draw different ones)
tmpRandom(p) == IF p = 1 THEN "r1" ELSE "r2"

ProcsInit ==
  /\ procs = [p \in Procs |-> [pc |-> "start", text |-> <<>>, changed |-> FALSE]]
  /\ tmps = [r \in {"r1", "r2"} |-> [exists |-> FALSE, text |-> <<>>]]

ConcFrame ==
  /\ UNCHANGED <<credentialsText, credentialsTextChanged, calls, written>>
  /\ UNCHANGED <<tmpFile, wr, crashed, fn, commandResult, nStores, queue, active, finished,
                 cliVars>>
  /\ UNCHANGED <<watchVars, gitVars, storeVars>>

\* #loadCredentialsFile in process p
pLoad(p) ==
  /\ procs[p].pc = "start"
  /\ procs' = [procs EXCEPT ![p].pc = "loaded",
                            ![p].text = <<trim(readFileIfExists(credFile))>>]
  /\ UNCHANGED <<credFile, tmps, history>>
  /\ ConcFrame

\* addCredentials(domain, credentials) in process p
pAdd(p, domain, credentials) ==
  /\ procs[p].pc = "loaded"
  /\ procs' = [procs EXCEPT
                 ![p].pc = "edited",
                 ![p].text = <<joinLines(addedLines(procs[p].text[1], domain, credentials))>>,
                 ![p].changed = TRUE]
  /\ UNCHANGED <<credFile, tmps, history>>
  /\ ConcFrame

\* removeCredentials(domain) in process p
pRemove(p, domain) ==
  /\ procs[p].pc = "loaded"
  /\ procs' = [procs EXCEPT
                 ![p].pc = "edited",
                 ![p].text = <<joinLines(removedLines(procs[p].text[1], domain))>>,
                 ![p].changed = TRUE]
  /\ UNCHANGED <<credFile, tmps, history>>
  /\ ConcFrame

\* flush() in process p, fs.writeFileSync(tmp, ...): the file is created, or
\* truncated when it exists
pFlushOpen(p) ==
  /\ procs[p].pc = "edited"
  /\ procs[p].changed
  /\ procs' = [procs EXCEPT ![p].pc = "opened"]
  /\ tmps' = [tmps EXCEPT ![tmpRandom(p)] = [exists |-> TRUE, text |-> <<>>]]
  /\ UNCHANGED <<credFile, history>>
  /\ ConcFrame

\* fs.writeFileSync(tmp, this.credentialsText.trimStart()): the data is written
pFlushWrite(p) ==
  /\ procs[p].pc = "opened"
  /\ procs' = [procs EXCEPT ![p].pc = "written"]
  /\ tmps' = [tmps EXCEPT ![tmpRandom(p)] =
                 [exists |-> TRUE, text |-> trimStart(procs[p].text[1])]]
  /\ UNCHANGED <<credFile, history>>
  /\ ConcFrame

\* fs.renameSync(tmp, CREDENTIALS_FILE): it throws ENOENT when the temporary
\* file is gone
pFlushRename(p) ==
  /\ procs[p].pc = "written"
  /\ IF tmps[tmpRandom(p)].exists
     THEN /\ credFile' = tmps[tmpRandom(p)]
          /\ tmps' = [tmps EXCEPT ![tmpRandom(p)] = [exists |-> FALSE, text |-> <<>>]]
          /\ history' = Append(history, [by |-> p, file |-> tmps[tmpRandom(p)]])
          /\ procs' = [procs EXCEPT ![p].pc = "done"]
     ELSE /\ procs' = [procs EXCEPT ![p].pc = "failed"]
          /\ UNCHANGED <<credFile, tmps, history>>
  /\ ConcFrame

\* the files the two processes may start from
ConcFiles ==
  { [exists |-> FALSE, text |-> <<>>],
    [exists |-> TRUE, text |-> <<"shop1", ".jumpseller.com", " ", "k1", "\n">>],
    [exists |-> TRUE, text |-> <<"shop1", ".jumpseller.com", " ", "k1", "\n",
                                 "test", ".localhost", " ", "k1", "\n">>] }

ConcInit ==
  /\ credFile \in ConcFiles
  /\ credentialsText = <<>>
  /\ credentialsTextChanged = FALSE
  /\ calls = <<>>
  /\ written = 0
  /\ tmpFile = [exists |-> FALSE, text |-> <<>>]
  /\ crashed = FALSE
  /\ fn = [name |-> "none", args |-> <<>>, result |-> <<>>]
  /\ commandResult = "none"
  /\ nStores = 0
  /\ queue = <<>>
  /\ active = {}
  /\ finished = {}
  /\ OptionsInit
  /\ ProcsInit
  /\ history = <<[by |-> 0, file |-> credFile]>>

(***************************************************************************)
(* Auth: the current store                                                 *)
(***************************************************************************)
\* JavaScript values: undefined, false and strings
Undef  == [t |-> "undefined", v |-> <<>>]
False  == [t |-> "false", v |-> <<>>]
Str(s) == [t |-> "string", v |-> s]

Truthy(x) == x.t = "string" /\ x.v # <<>>

\* a || b
Or(a, b) == IF Truthy(a) THEN a ELSE b

\* directories are sequences of names; the filesystem root is <<>>
Root    == <<>>
Home    == <<"home", "u">>
Project == <<"home", "u", "proj">>
Dirs    == { Root, <<"home">>, Home, Project }

\* path.dirname
dirname(dir) == IF dir = Root THEN Root ELSE SubSeq(dir, 1, Len(dir) - 1)

\* fingerDir.startsWith(home)
startsWith(dir, prefix) ==
  Len(dir) >= Len(prefix) /\ SubSeq(dir, 1, Len(prefix)) = prefix

NoFile       == [exists |-> FALSE, text |-> <<>>]
FileOf(text) == [exists |-> TRUE, text |-> text]

\* the loop of #findScopeFolder from fingerDir: what it leaves in
\* this.scopeDefault and this.scopeFolder
RECURSIVE findScopeFolder(_)
findScopeFolder(fingerDir) ==
  IF ~(startsWith(fingerDir, Home) \/ fingerDir # Root)
  THEN [scopeDefault |-> False, scopeFolder |-> cwd]
  ELSE IF localFiles[fingerDir].exists
  THEN [scopeDefault |-> Str(localFiles[fingerDir].text), scopeFolder |-> fingerDir]
  ELSE IF dirname(fingerDir) = fingerDir
  THEN [scopeDefault |-> False, scopeFolder |-> cwd]
  ELSE findScopeFolder(dirname(fingerDir))

\* #loadGlobalDefault: this.globalDefault ??= read().trim() || false
loadGlobalDefault ==
  IF globalDefault = Undef
  THEN Or(Str(trim(readFileIfExists(globalFile))), False)
  ELSE globalDefault

\* this.commandStore || this.getLocalDefault() || this.getGlobalDefault()
currentStoreGlobalFirst(command, scope, global) == Or(command, Or(global, scope))

currentStore(command, scope, global) == Or(command, Or(scope, global))

\* a call of currentStore(): the walk runs only when no command-line store is
\* set, the global default is loaded only when the walk found nothing
currentStoreResolve ==
  LET found == findScopeFolder(cwd)
  IN /\ current' = currentStore(commandStore, found.scopeDefault, loadGlobalDefault)
     /\ IF Truthy(commandStore)
        THEN UNCHANGED <<scopeDefault, scopeFolder, globalDefault>>
        ELSE /\ scopeDefault' = found.scopeDefault
             /\ scopeFolder' = <<found.scopeFolder>>
             /\ globalDefault' = IF Truthy(found.scopeDefault) THEN globalDefault
                                 ELSE loadGlobalDefault
     /\ UNCHANGED <<cwd, localFiles, globalFile, commandStore>>

currentStoreCall ==
  /\ currentStoreResolve
  /\ UNCHANGED <<watchVars, gitVars, credVars, extVars>>

\* setGlobalDefault: set, then #writeGlobalDefault renames the temporary file
setGlobalDefault(domain) ==
  /\ globalDefault' = Str(domain)
  /\ globalFile' = FileOf(trimStart(domain))
  /\ current' = Undef
  /\ UNCHANGED <<cwd, localFiles, commandStore, scopeDefault, scopeFolder>>
  /\ UNCHANGED <<watchVars, gitVars, credVars, extVars>>

\* setLocalDefault: the walk, then #writeLocalDefault in this.scopeFolder
setLocalDefault(domain) ==
  LET found == findScopeFolder(cwd)
  IN /\ scopeDefault' = Str(domain)
     /\ scopeFolder' = <<found.scopeFolder>>
     /\ localFiles' = [localFiles EXCEPT ![found.scopeFolder] = FileOf(trimStart(domain))]
     /\ current' = Undef
     /\ UNCHANGED <<cwd, globalFile, commandStore, globalDefault>>
     /\ UNCHANGED <<watchVars, gitVars, credVars, extVars>>

setCommandStore(domain) ==
  /\ commandStore' = Str(domain)
  /\ current' = Undef
  /\ UNCHANGED <<cwd, localFiles, globalFile, globalDefault, scopeDefault, scopeFolder>>
  /\ UNCHANGED <<watchVars, gitVars, credVars, extVars>>

(***************************************************************************)
(* withCurrentStore (middleware.js)                                        *)
(***************************************************************************)
\* how the wrapper ends for a store and the entry getCredentials found for it
\* (<<>> when it found none), without the test of the credentials
wrappedNoCredentialsTest(store, credentials) ==
  IF ~Truthy(store) THEN "NoStoreError" ELSE "action"

wrapped(store, credentials) ==
  IF ~Truthy(store) THEN "NoStoreError"
  ELSE IF credentials = <<>> THEN "NoCredentialsError"
  ELSE "action"

\* a command wrapped by withCurrentStore is run: Auth.currentStore(), then
\* Auth.getCredentials(store), then the two tests
withCurrentStore ==
  /\ currentStoreResolve
  /\ credentialsText' = <<loadCredentialsFile>>
  /\ commandResult' = wrapped(current', getCredentials(loadCredentialsFile, current'.v))
  /\ UNCHANGED <<credFile, credentialsTextChanged, calls, written>>
  /\ UNCHANGED <<tmpFile, wr, crashed, fn, nStores, queue, active, finished, cliVars, concVars>>
  /\ UNCHANGED <<watchVars, gitVars>>

\* the credentials files a command may find
CommandCredFiles ==
  { NoFile,
    FileOf(<<"shop1", ".jumpseller.com", " ", "k1", "\n">>),
    FileOf(<<"shop2", ".jumpseller.com", " ", "k1", "\n", "test", ".localhost", " ", "k2", "\n">>),
    FileOf(<<"shop1", ".jumpseller.com", " ", "bad", "\n", "shop2", ".jumpseller.com", "\n">>) }

CommandInit ==
  /\ credFile \in CommandCredFiles
  /\ credentialsText = <<>>
  /\ credentialsTextChanged = FALSE
  /\ calls = <<>>
  /\ written = 0

(***************************************************************************)
(* access list (access.js): the verifications behind plimit(10)            *)
(***************************************************************************)
\* const limiter = plimit(10)
PoolSize == 10

\* the limiter starts a queued function whatever the number running
mayStartAlways(activeCount) == TRUE

\* the limiter starts a queued function while fewer than PoolSize are running
mayStart(activeCount) == activeCount < PoolSize

\* list() up to await Promise.all: stores.map hands one verification per
\* store to the limiter, which queues them in order
listStart(n) ==
  /\ nStores = 0
  /\ nStores' = n
  /\ queue' = [i \in 1..n |-> i]
  /\ active' = {}
  /\ finished' = {}
  /\ UNCHANGED <<tmpFile, wr, crashed, fn, commandResult, cliVars, concVars>>
  /\ UNCHANGED <<watchVars, gitVars, credVars, storeVars>>

\* the limiter takes the next verification from its queue and calls it: the
\* whoami request of that store is sent
limiterStart ==
  /\ queue # <<>>
  /\ mayStart(Cardinality(active))
  /\ active' = active \cup {Head(queue)}
  /\ queue' = Tail(queue)
  /\ UNCHANGED <<nStores, finished>>
  /\ UNCHANGED <<tmpFile, wr, crashed, fn, commandResult, cliVars, concVars>>
  /\ UNCHANGED <<watchVars, gitVars, credVars, storeVars>>

\* the verification of store i ends (response, bad status or caught error);
\* the limiter then calls the next queued one at once
verifyDone(i) ==
  /\ i \in active
  /\ finished' = finished \cup {i}
  /\ IF queue # <<>>
     THEN /\ active' = (active \ {i}) \cup {Head(queue)}
          /\ queue' = Tail(queue)
     ELSE /\ active' = active \ {i}
          /\ queue' = queue
  /\ UNCHANGED nStores
  /\ UNCHANGED <<tmpFile, wr, crashed, fn, commandResult, cliVars, concVars>>
  /\ UNCHANGED <<watchVars, gitVars, credVars, storeVars>>

\* what a default file may hold before the CLI touches it
DefaultFiles ==
  { NoFile, FileOf(<<>>), FileOf(<<"shop2", ".jumpseller.com", "\n">>) }

\* the LOCAL_CURRENT_FILE a directory may hold: none, an empty one, one an
\* editor wrote, one setLocalDefault wrote
LocalFiles == DefaultFiles \cup { FileOf(<<"shop1", ".jumpseller.com">>) }

StoreInit ==
  /\ cwd \in { Project, <<"home">> }
  /\ localFiles \in [Dirs -> LocalFiles]
  /\ globalFile \in DefaultFiles
  /\ commandStore = Undef
  /\ globalDefault = Undef
  /\ scopeDefault = Undef
  /\ scopeFolder = <<>>
  /\ current = Undef

\* the store resolution at rest
StoreIdle ==
  /\ cwd = Project
  /\ localFiles = [d \in Dirs |-> NoFile]
  /\ globalFile = NoFile
  /\ commandStore = Undef
  /\ globalDefault = Undef
  /\ scopeDefault = Undef
  /\ scopeFolder = <<>>
  /\ current = Undef

(***************************************************************************)
(* Auth: the writes, step by step                                          *)
(*                                                                         *)
(* #writeCredentialsFile, #writeGlobalDefault and #writeLocalDefault write *)
(* a temporary file next to the target and rename it over the target.  A   *)
(* path is <<target>> for the target itself and <<target, ".tmp">> for its *)
(* temporary file.                                                         *)
(***************************************************************************)
\* const tmp = `${FILE}.tmp.${random}`
tmpInPlace(target) == <<target>>

tmp(target) == <<target, ".tmp">>

NoWrite == [target |-> "none", data |-> <<>>, old |-> NoFile, folder |-> <<>>,
            renamed |-> FALSE]

\* the target file of a write
TargetFile(target, folder) ==
  IF target = "credentials" THEN credFile
  ELSE IF target = "global" THEN globalFile
  ELSE localFiles[folder]

\* the file at a path
FileAt(path) ==
  IF Len(path) = 2 THEN tmpFile ELSE TargetFile(path[1], wr.folder)

\* the files after the file at path has become f
FilesWith(path, f) ==
  /\ tmpFile' = IF Len(path) = 2 THEN f ELSE tmpFile
  /\ credFile' = IF path = <<"credentials">> THEN f ELSE credFile
  /\ globalFile' = IF path = <<"global">> THEN f ELSE globalFile
  /\ localFiles' = IF path = <<"local">> THEN [localFiles EXCEPT ![wr.folder] = f]
                   ELSE localFiles

WriteIdle == wr.target = "none" /\ ~crashed

\* flush() with the dirty flag set, up to fs.mkdirSync of #writeCredentialsFile
flushBegin ==
  /\ WriteIdle
  /\ Running
  /\ credentialsTextChanged
  /\ wr' = [target |-> "credentials", data |-> trimStart(credentialsText[1]),
            old |-> credFile, folder |-> <<>>, renamed |-> FALSE]
  /\ UNCHANGED <<tmpFile, crashed, fn, commandResult, nStores, queue, active, finished, cliVars, concVars>>
  /\ UNCHANGED <<watchVars, gitVars, credVars, storeVars>>

\* setGlobalDefault(domain) up to fs.mkdirSync of #writeGlobalDefault
setGlobalDefaultBegin(domain) ==
  /\ WriteIdle
  /\ Running
  /\ globalDefault' = Str(domain)
  /\ current' = Undef
  /\ wr' = [target |-> "global", data |-> trimStart(domain),
            old |-> globalFile, folder |-> <<>>, renamed |-> FALSE]
  /\ UNCHANGED <<cwd, localFiles, globalFile, commandStore, scopeDefault, scopeFolder>>
  /\ UNCHANGED <<tmpFile, crashed, fn, commandResult, nStores, queue, active, finished, cliVars, concVars>>
  /\ UNCHANGED <<watchVars, gitVars, credVars>>

\* setLocalDefault(domain) up to fs.mkdirSync of #writeLocalDefault
setLocalDefaultBegin(domain) ==
  LET found == findScopeFolder(cwd)
  IN /\ WriteIdle
     /\ Running
     /\ scopeDefault' = Str(domain)
     /\ scopeFolder' = <<found.scopeFolder>>
     /\ current' = Undef
     /\ wr' = [target |-> "local", data |-> trimStart(domain),
               old |-> localFiles[found.scopeFolder], folder |-> found.scopeFolder,
               renamed |-> FALSE]
     /\ UNCHANGED <<cwd, localFiles, globalFile, commandStore, globalDefault>>
     /\ UNCHANGED <<tmpFile, crashed, fn, commandResult, nStores, queue, active, finished, cliVars, concVars>>
     /\ UNCHANGED <<watchVars, gitVars, credVars>>

Writing == wr.target # "none" /\ ~wr.renamed /\ ~crashed

\* fs.writeFileSync(tmp, data): the file is created or truncated ...
writeFileSyncOpen ==
  /\ Writing
  /\ ~tmpFile.exists
  /\ FilesWith(tmp(wr.target), FileOf(<<>>))
  /\ UNCHANGED <<wr, crashed, fn, commandResult, nStores, queue, active, finished, cliVars, concVars>>
  /\ UNCHANGED <<cwd, commandStore, globalDefault, scopeDefault, scopeFolder, current>>
  /\ UNCHANGED <<credentialsText, credentialsTextChanged, calls, written>>
  /\ UNCHANGED <<watchVars, gitVars>>

\* ... and the data reaches it piece by piece
writeFileSyncChunk ==
  LET path == tmp(wr.target)
      text == FileAt(path).text
  IN /\ Writing
     /\ tmpFile.exists
     /\ Len(text) < Len(wr.data)
     /\ SubSeq(wr.data, 1, Len(text)) = text
     /\ FilesWith(path, FileOf(Append(text, wr.data[Len(text) + 1])))
     /\ UNCHANGED <<wr, crashed, fn, commandResult, nStores, queue, active, finished, cliVars, concVars>>
     /\ UNCHANGED <<cwd, commandStore, globalDefault, scopeDefault, scopeFolder, current>>
     /\ UNCHANGED <<credentialsText, credentialsTextChanged, calls, written>>
     /\ UNCHANGED <<watchVars, gitVars>>

\* fs.renameSync(tmp, FILE), once writeFileSync has returned
renameSync ==
  LET path == tmp(wr.target)
  IN /\ Writing
     /\ tmpFile.exists
     /\ FileAt(path).text = wr.data
     /\ IF Len(path) = 2
        THEN /\ tmpFile' = NoFile
             /\ credFile' = IF wr.target = "credentials" THEN tmpFile ELSE credFile
             /\ globalFile' = IF wr.target = "global" THEN tmpFile ELSE globalFile
             /\ localFiles' = IF wr.target = "local"
                              THEN [localFiles EXCEPT ![wr.folder] = tmpFile]
                              ELSE localFiles
        ELSE UNCHANGED <<tmpFile, credFile, globalFile, localFiles>>
     /\ wr' = [wr EXCEPT !.renamed = TRUE]
     /\ UNCHANGED <<crashed, fn, commandResult, nStores, queue, active, finished, cliVars, concVars>>
     /\ UNCHANGED <<cwd, commandStore, globalDefault, scopeDefault, scopeFolder, current>>
     /\ UNCHANGED <<credentialsText, credentialsTextChanged, calls, written>>
     /\ UNCHANGED <<watchVars, gitVars>>

\* the write returns to flush / setGlobalDefault / setLocalDefault
writeReturn ==
  /\ wr.target # "none"
  /\ wr.renamed
  /\ ~crashed
  /\ wr' = NoWrite
  /\ written' = IF wr.target = "credentials" THEN written + 1 ELSE written
  /\ calls' = Called([op |-> IF wr.target = "credentials" THEN "flush" ELSE wr.target,
                       domain |-> NoCall, credentials |-> NoCall])
  /\ UNCHANGED <<credFile, credentialsText, credentialsTextChanged>>
  /\ UNCHANGED <<tmpFile, crashed, fn, commandResult, nStores, queue, active, finished, cliVars, concVars>>
  /\ UNCHANGED <<watchVars, gitVars, storeVars>>

\* the process dies at some step of a write
Crash ==
  /\ wr.target # "none"
  /\ ~crashed
  /\ crashed' = TRUE
  /\ UNCHANGED <<tmpFile, wr, fn, commandResult, nStores, queue, active, finished, cliVars, concVars>>
  /\ UNCHANGED <<watchVars, gitVars, credVars, storeVars>>

\* the files the step-by-step writes start from
CrashCredFiles ==
  { NoFile,
    FileOf(<<"shop1", ".jumpseller.com", " ", "k1", "\n",
             "test", ".localhost", " ", "k2", "\n">>) }

CrashLocalFiles ==
  { [d \in Dirs |-> NoFile],
    [d \in Dirs |-> IF d = Home THEN FileOf(<<"shop2", ".jumpseller.com">>) ELSE NoFile] }

CrashInit ==
  /\ credFile \in CrashCredFiles
  /\ credentialsText = <<>>
  /\ credentialsTextChanged = FALSE
  /\ calls = <<>>
  /\ written = 0
  /\ cwd = Project
  /\ localFiles \in CrashLocalFiles
  /\ globalFile \in { NoFile, FileOf(<<"shop2", ".jumpseller.com", "\n">>) }
  /\ commandStore = Undef
  /\ globalDefault = Undef
  /\ scopeDefault = Undef
  /\ scopeFolder = <<>>
  /\ current = Undef

\* no write in progress, no call made, no command run, nothing listed
ExtIdle ==
  /\ tmpFile = NoFile
  /\ wr = NoWrite
  /\ crashed = FALSE
  /\ fn = [name |-> "none", args |-> <<>>, result |-> <<>>]
  /\ commandResult = "none"
  /\ nStores = 0
  /\ queue = <<>>
  /\ active = {}
  /\ finished = {}
  /\ OptionsInit
  /\ ProcsInit
  /\ history = <<>>

(***************************************************************************)
(* Specifications                                                          *)
(***************************************************************************)
\* a watch session
Init == WatchInit /\ GitInit /\ CredIdle /\ StoreIdle /\ ExtIdle

Next ==
  \/ Watch
  \/ \E e \in EventKinds, p \in Paths : OnAll(e, Folder \o p)
  \/ \E s \in Signals : SignalStop(s)
  \/ \E s \in Signals : SignalDefault(s)
  \/ Resume
  \/ CloseDone
  \/ \E i \in 1..MaxEvents, o \in Outcomes : Settle(i, o)
  \/ DrainResolve
  \/ DrainReject
  \/ \E p \in Edited, c \in Contents : FileEdit(p, c)
  \/ \E b \in Branches : GitSwitch(b)
  \/ \E s \in Stashes : GitStash(s)
  \/ \E l \in BOOLEAN : GitLock(l)

Spec == Init /\ [][Next]_vars

\* a watch session outside a repository, with further watch() calls on the
\* same instance
InitRewatch == WatchInit /\ GitInit /\ gitRoot = FALSE /\ CredIdle /\ StoreIdle /\ ExtIdle

NextRewatch ==
  \/ Watch
  \/ WatchRejected
  \/ \E e \in EventKinds, p \in Paths : OnAll(e, Folder \o p)
  \/ \E s \in Signals : SignalStop(s)
  \/ \E s \in Signals : SignalDefault(s)
  \/ CloseDone
  \/ \E i \in 1..MaxEvents, o \in Outcomes : Settle(i, o)
  \/ DrainResolve
  \/ DrainReject

SpecRewatch == InitRewatch /\ [][NextRewatch]_vars

\* theme watch with its options, and the events of the session it starts
InitOptions == WatchIdle /\ CredIdle /\ StoreIdle /\ ExtIdle

NextOptions ==
  \/ \E g \in UserBlocks : validationCollector("block", g)
  \/ \E g \in UserAllows : validationCollector("allow", g)
  \/ optionUnsafe
  \/ \E found \in BOOLEAN : watchCommand(found)
  \/ \E e \in EventKinds, p \in Paths : OnAll(e, Folder \o p)

SpecOptions == InitOptions /\ [][NextOptions]_vars

\* two processes that load, edit and flush the credentials file
InitConc == ConcInit /\ wr = NoWrite /\ WatchIdle /\ StoreIdle

NextConc ==
  \E p \in Procs :
     \/ pLoad(p)
     \/ \E d \in Domains : pAdd(p, d, <<"k2">>)
     \/ \E d \in Domains : pRemove(p, d)
     \/ pFlushOpen(p)
     \/ pFlushWrite(p)
     \/ pFlushRename(p)

SpecConc == InitConc /\ [][NextConc]_vars

\* calls on the credentials of Auth, over every initial credentials file
InitAuth == CredInit /\ WatchIdle /\ StoreIdle /\ ExtIdle

NextAuth ==
  \/ \E d \in Domains, c \in Credentials : addCredentials(d, c)
  \/ \E d \in Domains : removeCredentials(d)
  \/ flush
  \/ NewProcess

SpecAuth == InitAuth /\ [][NextAuth]_vars

\* single edits of the credentials, over every initial credentials file
Editing == Len(calls) < MaxEdits

NextEdit ==
  \/ Editing /\ \E d \in Domains, c \in Credentials : addCredentials(d, c)
  \/ Editing /\ \E d \in Domains : removeCredentials(d)
  \/ Editing /\ flush

SpecEdit == InitAuth /\ [][NextEdit]_vars

\* calls on the store resolution of Auth, over every initial set of files
InitStore == StoreInit /\ WatchIdle /\ CredIdle /\ ExtIdle

NextStore ==
  \/ currentStoreCall
  \/ \E d \in Domains : setCommandStore(d)
  \/ \E d \in Domains : setLocalDefault(d)
  \/ \E d \in Domains : setGlobalDefault(d)

SpecStore == InitStore /\ [][NextStore]_vars

\* a GitObserver on a repository that changes under it
InitGit ==
  /\ wpc = "idle"
  /\ stopped = FALSE
  /\ handlers = FALSE
  /\ requests = <<>>
  /\ nEvents = 0
  /\ lastEvent = [event |-> "none", path |-> <<>>]
  /\ allowlist = <<>>
  /\ blocklist = <<>>
  /\ files = [p \in Paths |-> "{}"]
  /\ watchers = 0
  /\ watchError = "none"
  /\ closed = FALSE
  /\ gitRoot = TRUE
  /\ gitObserver = <<>>
  /\ branch \in RepoBranches
  /\ stashList \in RepoStashes
  /\ indexLock \in BOOLEAN
  /\ CredIdle /\ StoreIdle /\ ExtIdle

NextGit ==
  \/ pin
  \/ checkCall
  \/ \E b \in RepoBranches : RepoSwitch(b)
  \/ \E s \in RepoStashes : RepoStash(s)
  \/ \E l \in BOOLEAN : RepoLock(l)

SpecGit == InitGit /\ [][NextGit]_vars

\* calls of isKnownPath on a watcher constructed with any of the lists
InitPolicy ==
  /\ wpc = "idle"
  /\ stopped = FALSE
  /\ handlers = FALSE
  /\ requests = <<>>
  /\ nEvents = 0
  /\ lastEvent = [event |-> "none", path |-> <<>>]
  /\ allowlist \in AllowLists
  /\ blocklist \in BlockLists
  /\ files = [p \in Paths |-> "{}"]
  /\ watchers = 0
  /\ watchError = "none"
  /\ closed = FALSE
  /\ GitInit /\ gitRoot = FALSE
  /\ CredIdle /\ StoreIdle /\ ExtIdle

NextPolicy == \E p \in PolicyPaths : isKnownPathCall(p)

SpecPolicy == InitPolicy /\ [][NextPolicy]_vars

\* commands wrapped by withCurrentStore, over the files and the command line
InitCommand == StoreInit /\ CommandInit /\ WatchIdle /\ ExtIdle

NextCommand ==
  \/ withCurrentStore
  \/ \E d \in Domains : setCommandStore(d)

SpecCommand == InitCommand /\ [][NextCommand]_vars

\* listCredentials over well-formed and malformed credentials files
InitList == ListInit /\ WatchIdle /\ StoreIdle /\ ExtIdle

NextList == listCredentialsCall

SpecList == InitList /\ [][NextList]_vars

\* access list verifying the saved stores
InitVerify == WatchIdle /\ CredIdle /\ StoreIdle /\ ExtIdle

NextVerify ==
  \/ \E n \in 1..MaxStores : listStart(n)
  \/ limiterStart
  \/ \E i \in 1..MaxStores : verifyDone(i)

SpecVerify == InitVerify /\ [][NextVerify]_vars

\* calls of parseStoreReference
InitParse == WatchIdle /\ CredIdle /\ StoreIdle /\ ExtIdle

NextParse == \E input \in StoreInputs : parseStoreReferenceCall(input)

SpecParse == InitParse /\ [][NextParse]_vars

\* the writes of Auth step by step, with the process dying at any step
InitCrash == CrashInit /\ WatchIdle /\ ExtIdle

NextCrash ==
  \/ \E d \in Domains : addCredentials(d, <<"k1">>)
  \/ removeCredentials(<<"shop1", ".jumpseller.com">>)
  \/ flushBegin
  \/ \E d \in Domains : setGlobalDefaultBegin(d)
  \/ \E d \in Domains : setLocalDefaultBegin(d)
  \/ writeFileSyncOpen
  \/ writeFileSyncChunk
  \/ renameSync
  \/ writeReturn
  \/ Crash

SpecCrash == InitCrash /\ [][NextCrash]_vars

(***************************************************************************)
(* Claims about the watch session                                          *)
(***************************************************************************)
RequestIx == 1..Len(requests)

\* C1 (as claimed): when the GitGuard check returns true while an event is
\* handled, no remote write or delete is issued for that event.
C1Claim == \A i \in RequestIx : ~requests[i].guard

\* C2 (as claimed): once the session has left WATCHING (stop() was called),
\* no remote write or delete is issued for an event handled afterwards.
C2Claim == \A i \in RequestIx : ~requests[i].late

\* C3 (as claimed): watch() neither returns nor throws while a request
\* issued during the session is still pending.
C3Claim == wpc \in {"returned", "threw"} => NoPending

\* the request a syncable add / change / unlink event must produce
Expected(event, relativePath) ==
  IF event = "unlink"
  THEN [kind |-> "DELETE", path |-> relativePath, content |-> ""]
  ELSE [kind |-> "WRITE", path |-> relativePath, content |-> files[relativePath]]

Issued(r) == [kind |-> r.kind, path |-> r.path, content |-> r.content]

C5Theorem ==
  \A i \in RequestIx : isKnownPath(requests[i].path, allowlist, blocklist)

\* an event on a path that is not syncable was handled and pushed nothing,
\* after an event on a syncable path had pushed its request
C5Witness ==
  /\ nEvents = 2
  /\ Len(requests) = 1
  /\ lastEvent.event \in {"add", "change", "unlink"}
  /\ ~isKnownPath(lastEvent.path, allowlist, blocklist)

\* C6 (as claimed): a further stop signal while the session is draining does
\* not end the session before every in-flight request has completed.
C6Claim == wpc = "terminated" => NoPending

\* C21 (as claimed): the watcher is never closed while an in-flight request
\* is still pending.
C21Claim == closed => NoPending

\* C21 (amended): the filesystem-watch resources are released first and the
\* requests are awaited afterwards: the wait for the in-flight requests has
\* not begun, and watch() has neither returned nor thrown, unless the watcher
\* has been closed.
C21Theorem == wpc \in {"draining", "returned", "threw"} => closed

\* the watcher has been closed and the drain waits for a pending request
C21Witness ==
  /\ wpc = "draining"
  /\ closed
  /\ \E i \in RequestIx : requests[i].status = "pending"

\* C22 (as claimed): a remote write or delete that fails while the session
\* is WATCHING leaves the session WATCHING, so that later events still
\* produce their remote calls.
C22Claim ==
  [][ (/\ wpc = "listening"
       /\ \E i \in RequestIx : /\ requests[i].status = "pending"
                               /\ requests'[i].status = "rejected")
        => wpc' = "listening" ]_vars

\* the patterns the user gave to an option
UserPatterns(name) ==
  LET RECURSIVE given(_)
      given(i) == IF i > Len(argv) THEN <<>>
                  ELSE IF argv[i].option = name THEN <<argv[i].arg>> \o given(i + 1)
                  ELSE given(i + 1)
  IN given(1)

\* C26 (as claimed): in theme watch, no request is issued for a path that
\* matches a --block pattern of the user and matches neither an --allow
\* pattern of the user nor components/*.json, with or without --unsafe.
C26Claim ==
  \A i \in RequestIx :
     ~(/\ IsMatch(requests[i].path, UserPatterns("block"))
       /\ ~IsMatch(requests[i].path, UserPatterns("allow"))
       /\ ~GlobMatch(requests[i].path, GComponentsJson))

\* the rules of PathPolicy in their order, each with its verdict
Rules(path, allow, block) ==
  << [hit |-> IsMatch(path, allow), verdict |-> TRUE],
     [hit |-> IsMatch(path, block), verdict |-> FALSE],
     [hit |-> \/ StartsWithDir(path, << <<"partials">> >>)
              \/ StartsWithDir(path, << <<"components">> >>)
              \/ StartsWithDir(path, << <<"templates">> >>), verdict |-> TRUE],
     [hit |-> StartsWithDir(path, << <<"assets">>, <<"library">> >>), verdict |-> FALSE],
     [hit |-> StartsWithDir(path, << <<"assets">> >>), verdict |-> TRUE],
     [hit |-> StartsWithDir(path, << <<"config">> >>), verdict |-> TRUE],
     [hit |-> TRUE, verdict |-> FALSE] >>

FirstMatch(path, allow, block) ==
  LET rules == Rules(path, allow, block)
      first == CHOOSE i \in 1..Len(rules) :
                  rules[i].hit /\ \A j \in 1..(i - 1) : ~rules[j].hit
  IN rules[first].verdict

\* C14: isKnownPath(path) is the verdict of the first rule that matches, in
\* the order allow glob, block glob, partials/ components/ templates/,
\* assets/library/, assets/, config/, and deny for every other path.
C14Theorem ==
  fn.name = "isKnownPath" =>
     fn.result = FirstMatch(fn.args[1], allowlist, blocklist)

\* components/foo.json matches an allow glob and a block glob, and is syncable
C14Witness ==
  /\ fn.name = "isKnownPath"
  /\ fn.args[1] = PComponent
  /\ IsMatch(PComponent, allowlist)
  /\ IsMatch(PComponent, blocklist)
  /\ fn.result = TRUE

\* C15: after pin(), whatever the repository has gone through since, check()
\* returns true exactly when the index lock exists, or the branch is not the
\* pinned branch, or the hash of the stash list is not the pinned hash.
C15Theorem ==
  [][ checkCall =>
        (fn'.result = TRUE) =
           (\/ indexLock
            \/ branch # gitObserver[1].branch
            \/ Sha1(stashList) # gitObserver[1].stash) ]_vars

\* check() returned true for the index lock alone: the branch and the stash
\* list are the pinned ones
C15Witness ==
  /\ fn.name = "check"
  /\ fn.result = TRUE
  /\ indexLock
  /\ gitObserver # <<>>
  /\ branch = gitObserver[1].branch
  /\ Sha1(stashList) = gitObserver[1].stash

\* C13: watch(folder) on an instance that is already watching is rejected
\* with an error and creates no second filesystem watcher; an instance never
\* has more than one.
C13Theorem ==
  [][ /\ watchers' <= 1
      /\ ((watchers >= 1 /\ (Watch \/ WatchRejected))
            => (watchError' = "Already watching" /\ watchers' = watchers)) ]_vars

\* a second watch() was rejected while the first session is listening
C13Witness ==
  /\ wpc = "listening"
  /\ watchers = 1
  /\ watchError = "Already watching"

(***************************************************************************)
(* Claims about the credentials file                                       *)
(***************************************************************************)
AddCall(d, c) == [op |-> "add", domain |-> d, credentials |-> c]
FlushCall     == [op |-> "flush", domain |-> NoCall, credentials |-> NoCall]
ExitCall      == [op |-> "exit", domain |-> NoCall, credentials |-> NoCall]

\* the calls end with addCredentials(d, c); flush(), followed at most by the
\* process being started again
AddedAndFlushed(d, c) ==
  \E k \in 1..(Len(calls) - 1) :
     /\ calls[k] = AddCall(d, c)
     /\ calls[k + 1] = FlushCall
     /\ \A j \in (k + 2)..Len(calls) : calls[j] = ExitCall

\* C8: after addCredentials(d, c); flush(), listCredentials().get(d) is c, in
\* the same process and in a new process that reads the file again.
C8Theorem ==
  \A d \in Domains, c \in Credentials :
     AddedAndFlushed(d, c) => getCredentials(loadCredentialsFile, d) = <<c>>

\* a new process is about to read the file written by add; flush
C8Witness ==
  /\ calls = <<AddCall(<<"shop1", ".jumpseller.com">>, <<"k2">>), FlushCall, ExitCall>>
  /\ credentialsText = <<>>
  /\ Len(splitLines(credFile.text)) >= 3

\* the lines of the file on disk that are lines for the domain
LinesFor(d) ==
  LET lines == split(readFileIfExists(credFile), "\n")
  IN { i \in 1..Len(lines) : lineDomain(lines[i]) = d }

\* C9 (as claimed): addCredentials(d, c) twice and then flush() leave a file
\* with exactly one line for d.
C9Claim ==
  \A d \in Domains, c \in Credentials :
     calls = <<AddCall(d, c), AddCall(d, c), FlushCall>> => Cardinality(LinesFor(d)) = 1

\* C10 (as claimed): removeCredentials(d) for a domain that has no line in
\* the credentials file does not set the dirty flag.
C10Claim ==
  [][ \A d \in Domains :
        (removeCredentials(d) /\ removedLines(loadCredentialsFile, d) = splitLines(loadCredentialsFile))
          => credentialsTextChanged' = credentialsTextChanged ]_vars

\* a valid bare label: a non-empty string over [a-z0-9_-]
IsLabel(t) == t # <<>> /\ AllIn(t, LabelPieces)

Parsed == fn.name = "parseStoreReference"

\* C16 (as claimed): for every valid bare label L, parseStoreReference(L) is
\* (true, L + ".jumpseller.com").
C16Claim ==
  (Parsed /\ IsLabel(fn.args[1]))
    => fn.result = [ok |-> TRUE, store |-> fn.args[1] \o <<".jumpseller.com">>]

\* C16 (amended): for every valid bare label L other than "test",
\* parseStoreReference(L) is (true, L + ".jumpseller.com"); for "test" it is
\* (true, "test.localhost").
C16Theorem ==
  (Parsed /\ IsLabel(fn.args[1]))
    => IF fn.args[1] = <<"test">>
       THEN fn.result = [ok |-> TRUE, store |-> <<"test", ".localhost">>]
       ELSE fn.result = [ok |-> TRUE, store |-> fn.args[1] \o <<".jumpseller.com">>]

\* a label that only starts with "test" was parsed into a jumpseller.com domain
C16Witness ==
  /\ Parsed
  /\ fn.args[1] = <<"test", "shop1">>
  /\ fn.result = [ok |-> TRUE, store |-> <<"test", "shop1", ".jumpseller.com">>]

EndsWithSlash(t) == t # <<>> /\ t[Len(t)] = "/"

HasPrefix(t, prefix) == Len(t) >= Len(prefix) /\ SubSeq(t, 1, Len(prefix)) = prefix

\* s is what is left of input when one final "/" and then a leading
\* "https://", a leading "http://" and a leading "//" are taken away, each
\* where present
IsStrippedOf(s, input) ==
  \E q \in { <<>>, <<"/">> }, p1 \in { <<>>, Https }, p2 \in { <<>>, Http },
     p3 \in { <<>>, SlashSlash } :
       /\ input = p1 \o p2 \o p3 \o s \o q
       /\ (q = <<>>) => ~EndsWithSlash(input)
       /\ (p1 = <<>>) => ~HasPrefix(p2 \o p3 \o s, Https)
       /\ (p2 = <<>>) => ~HasPrefix(p3 \o s, Http)
       /\ (p3 = <<>>) => ~HasPrefix(s, SlashSlash)

RemoveCall(d) == [op |-> "remove", domain |-> d, credentials |-> NoCall]

\* the calls end with removeCredentials(d); flush(), followed at most by the
\* process being started again
RemovedAndFlushed(d) ==
  \E k \in 1..(Len(calls) - 1) :
     /\ calls[k] = RemoveCall(d)
     /\ calls[k + 1] = FlushCall
     /\ \A j \in (k + 2)..Len(calls) : calls[j] = ExitCall

\* C28: after removeCredentials(d); flush(), getCredentials(d) is absent, in
\* the same process and in a new process that reads the file again, whatever
\* the file held before (several lines for d included).
C28Theorem ==
  \A d \in Domains :
     RemovedAndFlushed(d) => getCredentials(loadCredentialsFile, d) = <<>>

\* a new process is about to read the file written by remove; flush, which
\* has kept the line of the other domain
C28Witness ==
  /\ calls = <<RemoveCall(<<"shop1", ".jumpseller.com">>), FlushCall, ExitCall>>
  /\ credentialsText = <<>>
  /\ credFile = FileOf(<<"test", ".localhost", " ", "k1", "\n">>)

\* the lines of a text that belong to the domains other than d, in order,
\* each without its comment and the white space around it
OtherLines(text, d) ==
  LET other(line) == HasCanonical(line) /\ lineDomain(line) # d
      kept == SelectSeq(splitLines(text), other)
  IN [i \in 1..Len(kept) |-> canonicalLine(kept[i])]

\* the step is addCredentials(d, c) or removeCredentials(d)
Edits(d) ==
  /\ Len(calls') = Len(calls) + 1
  /\ calls'[Len(calls')].op \in {"add", "remove"}
  /\ calls'[Len(calls')].domain = d

\* C29: addCredentials(d, c) and removeCredentials(d) leave getCredentials(d')
\* as it was for every other domain d', and the lines of the other domains
\* are the same lines in the same order in the text flush() writes.
C29Theorem ==
  [][ \A d \in Domains :
        Edits(d) =>
          /\ \A e \in Domains \ {d} :
                getCredentials(credentialsText'[1], e) = getCredentials(loadCredentialsFile, e)
          /\ OtherLines(trimStart(credentialsText'[1]), d) = OtherLines(loadCredentialsFile, d)
    ]_vars

\* addCredentials(shop1.jumpseller.com, k2) and flush() have written a file
\* that holds the line of test.localhost as it was, ahead of the line of shop1
C29Witness ==
  /\ calls = <<AddCall(<<"shop1", ".jumpseller.com">>, <<"k2">>), FlushCall>>
  /\ written = 1
  /\ credFile = FileOf(<<"test", ".localhost", " ", "k1", "\n",
                         "shop1", ".jumpseller.com", " ", "k2", "\n">>)

\* the complete content process p has computed: what its flush() writes
Complete(p) == [exists |-> TRUE, text |-> trimStart(procs[p].text[1])]

\* C27: with two processes that load, edit and flush the credentials file in
\* any interleaving, the file on disk is at every moment the original content
\* or the complete content written by the process whose rename was the last
\* one so far, never a mixture or a part; in the end it is that of the
\* process that renamed last.
C27Theorem ==
  /\ history # <<>> =>
       credFile = IF Len(history) = 1 THEN history[1].file
                  ELSE Complete(history[Len(history)].by)
  /\ \A p \in Procs : procs[p].pc # "failed"

\* both processes loaded the original file, process 2 renamed first and
\* process 1 last: the file holds the content of process 1, which differs
\* from that of process 2
C27Witness ==
  /\ Len(history) = 3
  /\ history[2].by = 2
  /\ history[3].by = 1
  /\ procs[1].text = <<joinLines(addedLines(trim(readFileIfExists(history[1].file)),
                                           <<"test", ".localhost">>, <<"k2">>))>>
  /\ credFile = Complete(1)
  /\ Complete(1) # Complete(2)

\* C11 (as claimed): flush() clears the dirty flag, so a flush() that follows
\* a flush() with no addCredentials / removeCredentials in between writes
\* nothing to disk.
C11Claim ==
  [][ (flush /\ calls # <<>> /\ calls[Len(calls)] = FlushCall) => written' = written ]_vars

\* C12: at every step of a write of flush(), setGlobalDefault() or
\* setLocalDefault(), and so wherever the process dies, the target file holds
\* its complete previous content or the complete new content.
C12Theorem ==
  wr.target # "none" =>
     LET file == TargetFile(wr.target, wr.folder)
     IN IF wr.renamed THEN file = FileOf(wr.data) ELSE file = wr.old

\* the process died with half of the new content in the temporary file, and
\* the target still holds what it held
C12Witness ==
  /\ crashed
  /\ wr.old.exists
  /\ wr.old.text # wr.data
  /\ tmpFile.exists
  /\ tmpFile.text # <<>>
  /\ tmpFile.text # wr.data
  /\ TargetFile(wr.target, wr.folder) = wr.old

(***************************************************************************)
(* Claims about the current store                                          *)
(***************************************************************************)
\* the directories from the working directory upwards, the root excluded
Upwards == { d \in Dirs : startsWith(cwd, d) /\ d # Root }

LocalFound == \E d \in Upwards : localFiles[d].exists

\* the content of the nearest local default file
NearestLocal ==
  localFiles[CHOOSE d \in Upwards :
               /\ localFiles[d].exists
               /\ \A e \in Upwards : localFiles[e].exists => Len(e) <= Len(d)].text

LocalSet    == LocalFound /\ NearestLocal # <<>>
GlobalValue == trim(readFileIfExists(globalFile))
GlobalSet   == GlobalValue # <<>>

\* C7: currentStore() returns the command-line store when it is set,
\* otherwise the local default when one is found, otherwise the global
\* default when one is set, otherwise nothing.
C7Theorem ==
  current # Undef =>
    IF Truthy(commandStore) THEN current = commandStore
    ELSE IF LocalSet THEN current = Str(NearestLocal)
    ELSE IF GlobalSet THEN current = Str(GlobalValue)
    ELSE ~Truthy(current)

\* with no command-line store, a local default set by setLocalDefault was
\* returned although a different global default is set
C7Witness ==
  /\ ~Truthy(commandStore)
  /\ LocalSet /\ GlobalSet
  /\ NearestLocal = <<"shop1", ".jumpseller.com">>
  /\ GlobalValue # NearestLocal
  /\ current = Str(NearestLocal)

\* C23 (as claimed): for a working directory under the home directory, the
\* walk never uses the local default file of a strict ancestor of the home
\* directory: the scope folder it settles on is the home directory or below.
C23Claim ==
  (startsWith(cwd, Home) /\ scopeFolder # <<>>) => startsWith(scopeFolder[1], Home)

\* the directories from the working directory up to the home directory
UpToHome == { d \in Dirs : startsWith(cwd, d) /\ startsWith(d, Home) }

\* the file holds a store reference that parseStoreReference accepts
Parseable(file) == file.exists /\ parseStoreReference(trim(file.text)).ok

\* the nearest directory up to the home directory with a parseable file
NearestParseable ==
  CHOOSE d \in UpToHome :
    /\ Parseable(localFiles[d])
    /\ \A e \in UpToHome : Parseable(localFiles[e]) => Len(e) <= Len(d)

\* C24 (as claimed): a directory whose local default file is present but not
\* parseable does not stop the walk: with no command-line store, the store
\* resolved is the content of the nearest file that is present and parseable.
C24Claim ==
  (/\ current # Undef
   /\ ~Truthy(commandStore)
   /\ \E d \in UpToHome : Parseable(localFiles[d]))
    => current = Str(localFiles[NearestParseable].text)

\* C25 (as claimed): setLocalDefault(d) writes the local default file of the
\* working directory and leaves the file of every other directory unchanged.
C25Claim ==
  [][ \A d \in Domains :
        setLocalDefault(d)
          => /\ localFiles'[cwd] = FileOf(d)
             /\ \A e \in Dirs \ {cwd} : localFiles'[e] = localFiles[e] ]_vars

\* the credentials file has a line for the store with a canonical domain and
\* well-formed credentials
HasSavedCredentials(store) ==
  LET lines == split(trim(readFileIfExists(credFile)), "\n")
  IN \E i \in 1..Len(lines) :
        /\ lineDomain(lines[i]) = store
        /\ parseStoreReference(store) = [ok |-> TRUE, store |-> store]
        /\ validCredentials(lineCredentials(lines[i]))

\* C18: a command wrapped by withCurrentStore invokes its action only when
\* currentStore() resolves a store that has valid saved credentials; with no
\* store it fails with the no-store error, with a store without credentials
\* with the no-credentials error.
C18Theorem ==
  [][ withCurrentStore =>
        commandResult' =
           IF ~Truthy(current') THEN "NoStoreError"
           ELSE IF ~HasSavedCredentials(current'.v) THEN "NoCredentialsError"
           ELSE "action" ]_vars

\* the action ran for a store resolved without the command line
C18Witness ==
  /\ commandResult = "action"
  /\ ~Truthy(commandStore)
  /\ Truthy(current)
  /\ HasSavedCredentials(current.v)

\* the lines of the credentials file, and the ones that make an entry
FileLinesRead == split(trim(readFileIfExists(credFile)), "\n")

ValidLine(line) ==
  /\ canonicalLine(line) # <<>>
  /\ parseStoreReference(lineDomain(line)) = [ok |-> TRUE, store |-> lineDomain(line)]
  /\ validCredentials(lineCredentials(line))

\* line i is the first valid line for its domain
FirstValid(i) ==
  /\ ValidLine(FileLinesRead[i])
  /\ \A j \in 1..(i - 1) :
        ValidLine(FileLinesRead[j]) => lineDomain(FileLinesRead[j]) # lineDomain(FileLinesRead[i])

\* C19: for any credentials file listCredentials() returns, without failing,
\* exactly one entry per domain that has a valid line (canonical domain,
\* well-formed credentials), taken from the first valid line for that domain;
\* comments, blank lines and malformed lines give no entry.
C19Theorem ==
  fn.name = "listCredentials" =>
     /\ \A k \in 1..Len(fn.result) :
           \E i \in 1..Len(FileLinesRead) :
              /\ FirstValid(i)
              /\ fn.result[k] = [domain |-> lineDomain(FileLinesRead[i]),
                                 credentials |-> lineCredentials(FileLinesRead[i])]
     /\ \A i \in 1..Len(FileLinesRead) :
           ValidLine(FileLinesRead[i]) =>
              \E k \in 1..Len(fn.result) : fn.result[k].domain = lineDomain(FileLinesRead[i])
     /\ \A k, l \in 1..Len(fn.result) :
           fn.result[k].domain = fn.result[l].domain => k = l

\* a file with two valid lines for one domain gave the entry of the first
C19Witness ==
  /\ fn.name = "listCredentials"
  /\ Len(FileLinesRead) = 2
  /\ ValidLine(FileLinesRead[1]) /\ ValidLine(FileLinesRead[2])
  /\ lineDomain(FileLinesRead[1]) = lineDomain(FileLinesRead[2])
  /\ lineCredentials(FileLinesRead[1]) # lineCredentials(FileLinesRead[2])
  /\ fn.result = << [domain |-> lineDomain(FileLinesRead[1]),
                     credentials |-> lineCredentials(FileLinesRead[1])] >>

\* C20: while access list verifies the stores, the verifications outstanding
\* at the same time never exceed the pool size, for any number of stores and
\* any order in which they end.
C20Theorem == Cardinality(active) <= PoolSize

\* the pool is full, stores are waiting, and a store started later has ended
\* before the first one
C20Witness ==
  /\ Cardinality(active) = PoolSize
  /\ queue # <<>>
  /\ 1 \in active
  /\ 2 \in finished

====
